---------------------------- MODULE Spec2Model ----------------------------
(***************************************************************************)
(* A model of web3-ethereum-defi's Enzyme helpers:                         *)
(*   - eth_defi/enzyme/vault_controlled_wallet.py  (VaultControlledWallet) *)
(*   - eth_defi/event_reader/web3factory.py        (TunedWeb3Factory)      *)
(*   - eth_defi/enzyme/generic_adapter.py          (argument encoders)     *)
(*   - eth_defi/deploy.py                          (deployer and registry) *)
(* Each component has its own specification (SpecWallet, SpecFactory,      *)
(* SpecEncoder, SpecDeploy) over the shared variables; the variables of    *)
(* the other components stay at their initial values.                      *)
(***************************************************************************)
EXTENDS Integers, Sequences, FiniteSets, TLC

VARIABLES
    \* ---- vault controlled wallet ----
    chain_nonce,     \* the account's on-chain transaction count
    current_nonce,   \* HotWallet.current_nonce: <<>> is None, <<n>> is n
    txs,             \* the transaction dicts handed to the wallet, by identity
    allocated,       \* every value allocate_nonce returned, in call order
    syncs,           \* every value sync_nonce adopted, in call order
    signed,          \* the SignedTransactionWithNonce records returned
    last,            \* the last wallet call: operation, pre-state and outcome
    aframe,          \* per thread: its allocate_nonce call in progress, if any
    \* ---- connection factory ----
    tl_cache,        \* _web3_thread_local_cache.web3, per thread (None if unset)
    web3s,           \* the Web3 objects created so far; a handle is its index
    fframe,          \* per thread: the __call__ in progress (its pc and locals)
    fcalls,          \* every handle a __call__ returned, in return order
    \* ---- generic adapter call encoder ----
    enc_in,          \* the encoder call being made: the function and its arguments
    enc_out,         \* what the call returned or raised (NotCalled before it ran)
    \* ---- contract deployer and registry ----
    registry_of,     \* per connection: its contract_registry attribute (None if unset)
    dicts,           \* the registry dicts created so far; a dict is its index
    deployed,        \* the number of creation transactions the node accepted
    first_access,    \* per connection: what its first get_or_create returned
    expected,        \* per connection: address -> instance of the latest registration
    dep_last         \* the last deployer or registry call and its outcome

wallet_vars == <<chain_nonce, current_nonce, txs, allocated, syncs, signed, last>>

alloc_vars == <<aframe>>

factory_vars == <<tl_cache, web3s, fframe, fcalls>>

encoder_vars == <<enc_in, enc_out>>

deploy_vars == <<registry_of, dicts, deployed, first_access, expected, dep_last>>

vars == <<wallet_vars, alloc_vars, factory_vars, encoder_vars, deploy_vars>>

other_than_wallet == <<alloc_vars, factory_vars, encoder_vars, deploy_vars>>

other_than_wallet_threads == <<factory_vars, encoder_vars, deploy_vars>>

other_than_factory == <<wallet_vars, alloc_vars, encoder_vars, deploy_vars>>

other_than_encoder == <<wallet_vars, alloc_vars, factory_vars, deploy_vars>>

other_than_deploy == <<wallet_vars, alloc_vars, factory_vars, encoder_vars>>

(***************************************************************************)
(* Bounds of the model.                                                    *)
(***************************************************************************)
MaxChainNonce == 2
MaxSyncs == 2
MaxAllocs == 3
NumRequests == 2
NumThreads == 2
MaxFactoryCalls == 4
MaxAssets == 2
MaxExternalCalls == 2
NumSeeds == 2
NumAddresses == 3
MaxSelectorLen == 5
MaxDeployments == 2

(***************************************************************************)
(* Python's Optional: None is the empty sequence, a value v is <<v>>.      *)
(***************************************************************************)
None == <<>>

Some(v) == <<v>>

IsNone(o) == o = <<>>

Get(o) == o[1]

(***************************************************************************)
(*                       VAULT CONTROLLED WALLET                           *)
(***************************************************************************)

Requests == 1..NumRequests

\* The payloads of the transaction dicts (their to/data/gas fields).
Payloads == {"approve", "swap"}

\* A transaction dict without and with a "nonce" key.
TxWithoutNonce(p) == [data |-> p]

TxWithNonce(p, n) == [data |-> p, nonce |-> n]

\* The instance attributes __init__ sets, and what the class defines.
WalletAttributes ==
    {"vault", "hot_wallet",
     "address", "sync_nonce", "allocate_nonce", "sign_transaction_with_new_nonce",
     "get_native_currency_balance", "from_private_key"}

\* The names the module binds: its imports and its class.
WalletModuleNames ==
    {"Web3", "Vault", "HotWallet", "SignedTransactionWithNonce", "VaultControlledWallet"}

\* HotWallet.sync_nonce: adopts the on-chain transaction count, whatever the
\* counter held before.
HotWallet_sync_nonce(cn, onchain) == Some(onchain)

\* HotWallet.allocate_nonce: returns the counter and increments it; an
\* unsynced counter (None) fails.
HotWallet_allocate_nonce(cn) ==
    IF IsNone(cn)
    THEN [outcome |-> "AssertionError", ret |-> None, counter |-> cn]
    ELSE [outcome |-> "returned", ret |-> Some(Get(cn)), counter |-> Some(Get(cn) + 1)]

\* VaultControlledWallet.sync_nonce delegates to the hot wallet.
sync_nonce(cn, onchain) == HotWallet_sync_nonce(cn, onchain)

\* A wrapper that hands out the hot wallet's counter without advancing it.
allocate_nonce_peek(cn) ==
    [HotWallet_allocate_nonce(cn) EXCEPT !.counter = cn]

\* VaultControlledWallet.allocate_nonce delegates to the hot wallet.
allocate_nonce(cn) == HotWallet_allocate_nonce(cn)

\* Account.sign_transaction: the signature covers the whole dict, nonce included.
SignTransaction(key, tx) ==
    [rawTransaction |-> <<key, tx>>, hash |-> <<"hash", key, tx>>,
     v |-> "v", r |-> "r", s |-> "s"]

\* The result of the call: its outcome, the dict as the call leaves it, the
\* counter as the call leaves it, the record it returns (None if it raised)
\* and the nonce allocate_nonce handed to it (None if it was not reached).
SignResult(outcome, tx, cn, rec, alloc) ==
    [outcome |-> outcome, tx |-> tx, counter |-> cn, record |-> rec, alloc |-> alloc]

\* sign_transaction_with_new_nonce from its second statement on.
sign_after_assert(tx, cn) ==
    LET a == allocate_nonce(cn)                                          \* line 52
    IN  IF a.outcome # "returned"
        THEN SignResult(a.outcome, tx, a.counter, None, None)
        ELSE
          LET tx2 == TxWithNonce(tx.data, Get(a.ret))                    \* line 52
          IN  IF "account" \notin WalletAttributes                       \* line 53
              THEN SignResult("AttributeError", tx2, a.counter, None, a.ret)
              ELSE
                LET sg == SignTransaction("account", tx2)
                IN  IF "decode_signed_transaction" \notin WalletModuleNames   \* line 54
                    THEN SignResult("NameError", tx2, a.counter, None, a.ret)
                    ELSE SignResult("returned", tx2, a.counter,          \* lines 55-64
                           Some([rawTransaction |-> sg.rawTransaction,
                                 hash |-> sg.hash, v |-> sg.v, r |-> sg.r, s |-> sg.s,
                                 nonce |-> tx2.nonce, source |-> tx2]),
                           a.ret)

\* The call with its entry assertion dropped.
sign_without_assert(tx, cn) == sign_after_assert(tx, cn)

\* VaultControlledWallet.sign_transaction_with_new_nonce.
sign_transaction_with_new_nonce(tx, cn) ==
    IF "nonce" \in DOMAIN tx
    THEN SignResult("AssertionError", tx, cn, None, None)                \* line 51
    ELSE sign_after_assert(tx, cn)

\* What a wallet call leaves in `last`.
LastCall(op, req, pre_tx, pre_counter, pre_signed, outcome, ret) ==
    [op |-> op, req |-> req, pre_tx |-> pre_tx, pre_counter |-> pre_counter,
     pre_signed |-> pre_signed, outcome |-> outcome, ret |-> ret]

NoCall == LastCall("none", 0, None, None, {}, "none", None)

\* The threads that share the wallet.
WalletThreads == 1..NumThreads

\* No allocate_nonce call in progress on a thread.
NoAllocFrame == [pc |-> "idle", nonce |-> None, loaded |-> None]

\* Every call runs to its end before the next one starts.
AllocIdle == aframe = [t \in WalletThreads |-> NoAllocFrame]

WalletStart ==
    /\ chain_nonce \in 0..1
    /\ current_nonce = None
    /\ txs \in [Requests -> {TxWithoutNonce("approve"), TxWithoutNonce("swap"),
                             TxWithNonce("approve", 0)}]
    /\ allocated = <<>>
    /\ syncs = <<>>
    /\ signed = {}
    /\ last = NoCall
    /\ AllocIdle

\* wallet.sync_nonce(web3)
SyncNonce ==
    /\ Len(syncs) < MaxSyncs
    /\ current_nonce' = sync_nonce(current_nonce, chain_nonce)
    /\ syncs' = Append(syncs, chain_nonce)
    /\ last' = LastCall("sync_nonce", 0, None, current_nonce, signed, "returned", None)
    /\ UNCHANGED <<chain_nonce, txs, allocated, signed>>

\* The log of allocations after one allocate_nonce call.
Allocations(a) ==
    IF a.outcome = "returned"
    THEN Append(allocated, [nonce |-> Get(a.ret), epoch |-> Len(syncs)])
    ELSE allocated

\* wallet.allocate_nonce()
AllocateNonce ==
    /\ Len(allocated) < MaxAllocs
    /\ LET a == allocate_nonce(current_nonce)
       IN  /\ current_nonce' = a.counter
           /\ allocated' = Allocations(a)
           /\ last' = LastCall("allocate_nonce", 0, None, current_nonce, signed,
                               a.outcome, a.ret)
    /\ UNCHANGED <<chain_nonce, txs, syncs, signed>>

\* wallet.sign_transaction_with_new_nonce(tx) on the dict `req`
SignTransactionWithNewNonce(req) ==
    /\ Len(allocated) < MaxAllocs
    /\ LET res == sign_transaction_with_new_nonce(txs[req], current_nonce)
       IN  /\ current_nonce' = res.counter
           /\ txs' = [txs EXCEPT ![req] = res.tx]
           /\ allocated' =
                IF IsNone(res.alloc)
                THEN allocated
                ELSE Append(allocated, [nonce |-> Get(res.alloc), epoch |-> Len(syncs)])
           /\ signed' = IF IsNone(res.record) THEN signed ELSE signed \cup {Get(res.record)}
           /\ last' = LastCall("sign", req, Some(txs[req]), current_nonce, signed,
                               res.outcome, res.record)
    /\ UNCHANGED <<chain_nonce, syncs>>

\* A transaction of the account is mined: web3.eth.send_raw_transaction by
\* the wallet's user, as in the tests.
TransactionMined ==
    /\ chain_nonce < MaxChainNonce
    /\ chain_nonce' = chain_nonce + 1
    /\ UNCHANGED <<current_nonce, txs, allocated, syncs, signed, last>>

\* A wallet nobody uses.
WalletIdle ==
    /\ chain_nonce = 0
    /\ current_nonce = None
    /\ txs = [req \in Requests |-> TxWithoutNonce("approve")]
    /\ allocated = <<>>
    /\ syncs = <<>>
    /\ signed = {}
    /\ last = NoCall
    /\ AllocIdle

(***************************************************************************)
(* allocate_nonce called from several threads on one wallet.  The wrapper  *)
(* takes no lock, so the steps of the calls interleave.                    *)
(***************************************************************************)

\* The allocate_nonce calls begun so far: returned and in progress.
AllocCallsBegun ==
    Len(allocated) + Cardinality({t \in WalletThreads : aframe[t].pc # "idle"})

\* A wallet that was synced once and is then shared by the threads.
SharedWalletStart ==
    /\ chain_nonce \in 0..MaxChainNonce
    /\ current_nonce = sync_nonce(None, chain_nonce)
    /\ txs = [req \in Requests |-> TxWithoutNonce("approve")]
    /\ allocated = <<>>
    /\ syncs = <<chain_nonce>>
    /\ signed = {}
    /\ last = NoCall
    /\ AllocIdle

\* Thread t calls wallet.allocate_nonce(): line 44 enters the hot wallet's
\* method; nothing is acquired on the way.
AllocCall(t) ==
    /\ aframe[t].pc = "idle"
    /\ AllocCallsBegun < MaxAllocs
    /\ aframe' = [aframe EXCEPT ![t].pc = "read"]
    /\ UNCHANGED wallet_vars

\* HotWallet.allocate_nonce, first step: the value to return is read.
AllocRead(t) ==
    /\ aframe[t].pc = "read"
    /\ aframe' = [aframe EXCEPT ![t].pc = "load", ![t].nonce = current_nonce]
    /\ UNCHANGED wallet_vars

\* HotWallet.allocate_nonce, the increment: the counter is loaded ...
AllocLoad(t) ==
    /\ aframe[t].pc = "load"
    /\ aframe' = [aframe EXCEPT ![t].pc = "store", ![t].loaded = current_nonce]
    /\ UNCHANGED wallet_vars

\* ... and the loaded value plus one is stored; the call returns what its
\* first step read.
AllocStoreAndReturn(t) ==
    /\ aframe[t].pc = "store"
    /\ current_nonce' = Some(Get(aframe[t].loaded) + 1)
    /\ allocated' = Append(allocated, [nonce |-> Get(aframe[t].nonce), epoch |-> Len(syncs)])
    /\ aframe' = [aframe EXCEPT ![t] = NoAllocFrame]
    /\ UNCHANGED <<chain_nonce, txs, syncs, signed, last>>

(***************************************************************************)
(*                          CONNECTION FACTORY                             *)
(***************************************************************************)

Threads == 1..NumThreads

\* The factories in use: TunedWeb3Factory(json_rpc_url, thread_local_cache=...).
FactoryConfig ==
    <<[json_rpc_url |-> "https://node-a", thread_local_cache |-> TRUE],
      [json_rpc_url |-> "https://node-b", thread_local_cache |-> TRUE],
      [json_rpc_url |-> "https://node-a", thread_local_cache |-> FALSE]>>

Factories == DOMAIN FactoryConfig

\* No __call__ in progress on a thread.
NoFrame == [pc |-> "idle", factory |-> 0, web3 |-> None]

\* A cache that is one module global instead of one slot per thread.
CachedWeb3_shared(f, t) ==
    IF FactoryConfig[f].thread_local_cache /\ \E u \in Threads : ~IsNone(tl_cache[u])
    THEN tl_cache[CHOOSE u \in Threads : ~IsNone(tl_cache[u])]
    ELSE None

\* Lines 91-94: what __call__ finds in the cache, None if it must create.
CachedWeb3(f, t) ==
    IF FactoryConfig[f].thread_local_cache
    THEN tl_cache[t]                       \* getattr(_web3_thread_local_cache, "web3", None)
    ELSE None

\* Lines 97-107: the Web3 object __call__ builds.
NewWeb3(f, t) ==
    [json_rpc_url |-> FactoryConfig[f].json_rpc_url,
     middleware |-> <<"chain", "retry">>,
     patched |-> TRUE,
     thread |-> t]

FactoryStart ==
    /\ tl_cache = [t \in Threads |-> None]
    /\ web3s = <<>>
    /\ fframe = [t \in Threads |-> NoFrame]
    /\ fcalls = <<>>

FactoryIdle == FactoryStart

\* The calls begun so far: those that returned and those in progress.
FactoryCallsBegun ==
    Len(fcalls) + Cardinality({t \in Threads : fframe[t].pc # "idle"})

\* Thread t calls factory f: lines 91-94. A cached handle is returned at once.
FactoryCall(t, f) ==
    /\ fframe[t].pc = "idle"
    /\ FactoryCallsBegun < MaxFactoryCalls
    /\ LET web3 == CachedWeb3(f, t)
       IN  IF ~IsNone(web3)
           THEN /\ fcalls' = Append(fcalls, [thread |-> t, factory |-> f,
                                             handle |-> Get(web3), created |-> FALSE])
                /\ UNCHANGED fframe
           ELSE /\ fframe' = [fframe EXCEPT ![t] = [pc |-> "create", factory |-> f,
                                                    web3 |-> None]]
                /\ UNCHANGED fcalls
    /\ UNCHANGED <<tl_cache, web3s>>

\* Lines 97-107: the session and the Web3 object are built.
FactoryCreate(t) ==
    /\ fframe[t].pc = "create"
    /\ web3s' = Append(web3s, NewWeb3(fframe[t].factory, t))
    /\ fframe' = [fframe EXCEPT ![t].pc = "store", ![t].web3 = Some(Len(web3s) + 1)]
    /\ UNCHANGED <<tl_cache, fcalls>>

\* Lines 109-112: the handle is cached, if the factory caches, and returned.
FactoryStoreAndReturn(t) ==
    /\ fframe[t].pc = "store"
    /\ tl_cache' =
         IF FactoryConfig[fframe[t].factory].thread_local_cache
         THEN [tl_cache EXCEPT ![t] = fframe[t].web3]
         ELSE tl_cache
    /\ fcalls' = Append(fcalls, [thread |-> t, factory |-> fframe[t].factory,
                                 handle |-> Get(fframe[t].web3), created |-> TRUE])
    /\ fframe' = [fframe EXCEPT ![t] = NoFrame]
    /\ UNCHANGED web3s

(***************************************************************************)
(*                      GENERIC ADAPTER CALL ENCODER                       *)
(* Byte strings are sequences of 0..255.  The ABI layer below is what      *)
(* eth_abi.encode does for the type lists the adapter module passes to it. *)
(***************************************************************************)

\* The ABI word, an address and a bytes4 value, in bytes.
WordBytes == 32

AddressBytes == 20

SelectorBytes == 4

Zeros(n) == [i \in 1..n |-> 0]

\* 256^p for the byte positions a model integer (below 2^31) occupies.
Pow256 == <<1, 256, 65536, 16777216>>

\* The k-byte big-endian form of n, for 0 <= n < 2^31.
BytesBE(n, k) ==
    [i \in 1..k |-> IF k - i >= Len(Pow256) THEN 0 ELSE (n \div Pow256[k - i + 1]) % 256]

\* The unsigned integer a big-endian byte string holds; -1 if it is 2^31 or
\* more, which no integer of the model is.
FromBE(b) ==
    LET L == Len(b)
        Digit(p) == IF L - p >= 1 THEN b[L - p] ELSE 0
    IN  IF (\E i \in 1..(L - Len(Pow256)) : b[i] # 0) \/ Digit(3) >= 128
        THEN -1
        ELSE Digit(3) * Pow256[4] + Digit(2) * Pow256[3] + Digit(1) * Pow256[2] + Digit(0)

\* The concatenation of a sequence of byte strings.
RECURSIVE Concat(_)
Concat(ss) == IF Len(ss) = 0 THEN <<>> ELSE Head(ss) \o Concat(Tail(ss))

\* uint256: one word, left-padded.
EncodeUint(n) == BytesBE(n, WordBytes)

\* address: its 20 bytes, left-padded to a word.
EncodeAddress(a) == Zeros(WordBytes - AddressBytes) \o BytesBE(a, AddressBytes)

\* Right-padding of a byte string to whole words.
PadRight(b) == b \o Zeros((WordBytes - (Len(b) % WordBytes)) % WordBytes)

\* bytes4: the value, right-padded to a word.
EncodeBytes4(b) == PadRight(b)

\* bytes: its length, then the value right-padded.
EncodeBytes(b) == EncodeUint(Len(b)) \o PadRight(b)

\* address[] and uint256[]: the length, then one word per element.
EncodeAddressArray(as) == EncodeUint(Len(as)) \o Concat([i \in 1..Len(as) |-> EncodeAddress(as[i])])

EncodeUintArray(ns) == EncodeUint(Len(ns)) \o Concat([i \in 1..Len(ns) |-> EncodeUint(ns[i])])

\* The sum of the lengths of the first k byte strings of ss.
RECURSIVE LenSum(_, _)
LenSum(ss, k) == IF k = 0 THEN 0 ELSE LenSum(ss, k - 1) + Len(ss[k])

\* A tuple of dynamic values: one offset word per value, then the values.
EncodeDynamicTuple(encs) ==
    Concat([i \in 1..Len(encs) |-> EncodeUint(WordBytes * Len(encs) + LenSum(encs, i - 1))])
        \o Concat(encs)

\* bytes[]: the length, then its elements as a tuple of dynamic values.
EncodeBytesArray(bs) ==
    EncodeUint(Len(bs)) \o EncodeDynamicTuple([i \in 1..Len(bs) |-> EncodeBytes(bs[i])])

\* (address, bytes4, bytes): two static heads, the offset of the bytes, the bytes.
EncodeAddressBytes4Bytes(a, sel, b) ==
    EncodeAddress(a) \o EncodeBytes4(sel) \o EncodeUint(3 * WordBytes) \o EncodeBytes(b)

\* ---- the canonical decoder (eth_abi.decode) ----

\* The word at byte offset off, as an integer.
DecodeUintAt(b, off) == FromBE(SubSeq(b, off + 1, off + WordBytes))

DecodeAddressAt(b, off) ==
    FromBE(SubSeq(b, off + 1 + WordBytes - AddressBytes, off + WordBytes))

DecodeUintArrayAt(b, off) ==
    [i \in 1..DecodeUintAt(b, off) |-> DecodeUintAt(b, off + WordBytes * i)]

DecodeAddressArrayAt(b, off) ==
    [i \in 1..DecodeUintAt(b, off) |-> DecodeAddressAt(b, off + WordBytes * i)]

DecodeBytesAt(b, off) ==
    SubSeq(b, off + WordBytes + 1, off + WordBytes + DecodeUintAt(b, off))

DecodeBytesArrayAt(b, off) ==
    [i \in 1..DecodeUintAt(b, off) |->
        DecodeBytesAt(b, off + WordBytes + DecodeUintAt(b, off + WordBytes * i))]

\* decode(['address[]', 'bytes[]'], b)
DecodeExternalCalls(b) ==
    [targets |-> DecodeAddressArrayAt(b, DecodeUintAt(b, 0)),
     datas |-> DecodeBytesArrayAt(b, DecodeUintAt(b, WordBytes))]

\* decode(['address[]', 'uint256[]', 'address[]', 'uint256[]', 'bytes'], b)
DecodeExecuteCallsArgs(b) ==
    [incoming_assets |-> DecodeAddressArrayAt(b, DecodeUintAt(b, 0)),
     min_incoming_asset_amounts |-> DecodeUintArrayAt(b, DecodeUintAt(b, WordBytes)),
     spend_assets |-> DecodeAddressArrayAt(b, DecodeUintAt(b, 2 * WordBytes)),
     spend_asset_amounts |-> DecodeUintArrayAt(b, DecodeUintAt(b, 3 * WordBytes)),
     external_calls |-> DecodeBytesAt(b, DecodeUintAt(b, 4 * WordBytes))]

\* ---- values and results ----

\* The runtime values an asset argument can be: a web3 Contract proxy, a
\* plain str holding a hex address (what a HexAddress is at run time), or
\* something else (an int).
ContractProxy(a) == [type |-> "Contract", address |-> a]

RawAddress(a) == [type |-> "str", address |-> a]

NotAnAsset(v) == [type |-> "int", address |-> v]

\* A bytes-like argument: its runtime type and its content.
BytesValue(ty, v) == [type |-> ty, value |-> v]

\* A call returns a value, or raises an exception whose message names values.
Returned(v) == [outcome |-> "returned", value |-> v, names |-> <<>>]

Raised(kind, names) == [outcome |-> kind, value |-> <<>>, names |-> names]

Min(S) == CHOOSE x \in S : \A y \in S : x <= y

\* isinstance(asset, Contract)
IsContract(asset) == asset.type = "Contract"

\* type(asset) == HexAddress: HexAddress is a typing.NewType, not a class, so
\* no value has it as its type; a hex address string has type str.
TypeIsHexAddress(asset) == asset.type = "HexAddress"

\* _addressify, lines 28-32.
addressify(asset) ==
    IF ~(IsContract(asset) \/ TypeIsHexAddress(asset))
    THEN Raised("AssertionError", <<asset>>)               \* "Got bad asset: {asset}"
    ELSE IF IsContract(asset)
         THEN Returned(asset.address)
         ELSE Returned(asset.address)

\* _addressify_collection, lines 35-36, and the comprehension of line 53: the
\* first bad asset raises.
addressify_collection(assets) ==
    LET bad == {i \in 1..Len(assets) : addressify(assets[i]).outcome # "returned"}
    IN  IF bad # {}
        THEN addressify(assets[Min(bad)])
        ELSE Returned([i \in 1..Len(assets) |-> addressify(assets[i]).value])

\* eth_abi's validation of a uint256[] argument: the first value out of range.
BadUints(ns) == {i \in 1..Len(ns) : ns[i] < 0}

\* eth_abi's validation of a bytes[] argument: the first value that is not bytes.
BadBytes(ds) == {i \in 1..Len(ds) : ds[i].type \notin {"bytes", "HexBytes"}}

\* The arguments of encode_generic_adapter_execute_calls_args.
ExecuteCallsArgs(ia, mia, sa, saa, ec) ==
    [incoming_assets |-> ia, min_incoming_asset_amounts |-> mia,
     spend_assets |-> sa, spend_asset_amounts |-> saa, external_calls |-> ec]

\* The outer encode call with the two asset lists in each other's place.
EncodeAllArgs_swapped(in_addrs, mia, sp_addrs, saa, calls_data) ==
    IF BadUints(mia) # {}
    THEN Raised("EncodingError", <<mia[Min(BadUints(mia))]>>)
    ELSE IF BadUints(saa) # {}
    THEN Raised("EncodingError", <<saa[Min(BadUints(saa))]>>)
    ELSE Returned(EncodeDynamicTuple(
            <<EncodeAddressArray(sp_addrs), EncodeUintArray(mia),
              EncodeAddressArray(in_addrs), EncodeUintArray(saa),
              EncodeBytes(calls_data)>>))

\* Lines 69-78: the outer encode call, given the resolved addresses.
EncodeAllArgs(in_addrs, mia, sp_addrs, saa, calls_data) ==
    IF BadUints(mia) # {}
    THEN Raised("EncodingError", <<mia[Min(BadUints(mia))]>>)
    ELSE IF BadUints(saa) # {}
    THEN Raised("EncodingError", <<saa[Min(BadUints(saa))]>>)
    ELSE Returned(EncodeDynamicTuple(
            <<EncodeAddressArray(in_addrs), EncodeUintArray(mia),
              EncodeAddressArray(sp_addrs), EncodeUintArray(saa),
              EncodeBytes(calls_data)>>))

\* encode_generic_adapter_execute_calls_args, lines 39-80.
encode_generic_adapter_execute_calls_args(args) ==
    LET ec == args.external_calls
        addresses == addressify_collection([i \in 1..Len(ec) |-> ec[i][1]])   \* line 53
        datas == [i \in 1..Len(ec) |-> ec[i][2]]                              \* line 54
    IN  IF addresses.outcome # "returned" THEN addresses
        ELSE IF BadBytes(datas) # {}                                          \* lines 56-62
        THEN Raised("EncodingError", <<addresses.value, datas>>)
        ELSE
          LET encoded_external_calls_data ==
                  EncodeDynamicTuple(
                      <<EncodeAddressArray(addresses.value),
                        EncodeBytesArray([i \in 1..Len(datas) |-> datas[i].value])>>)
              incoming == addressify_collection(args.incoming_assets)         \* line 72
              spend == addressify_collection(args.spend_assets)               \* line 74
          IN  IF incoming.outcome # "returned" THEN incoming
              ELSE IF spend.outcome # "returned" THEN spend
              ELSE EncodeAllArgs(incoming.value, args.min_incoming_asset_amounts,
                                 spend.value, args.spend_asset_amounts,
                                 encoded_external_calls_data)

\* eth_abi's bytes4 encoder: at most four bytes, right-padded.
EncodeAddressBytes4BytesChecked(a, sel, b) ==
    IF Len(sel) > SelectorBytes
    THEN Raised("EncodingError", <<sel>>)
    ELSE Returned(EncodeAddressBytes4Bytes(a, sel, b))

\* Lines 108-115 of encode_call_on_integration_args.
call_on_integration_encode(adapter, selector, encoded_call_args) ==
    LET a == addressify(adapter)
    IN  IF a.outcome # "returned" THEN a
        ELSE EncodeAddressBytes4BytesChecked(a.value, selector.value, encoded_call_args.value)

\* encode_call_on_integration_args without the assertion of line 105.
encode_call_on_integration_args_any_selector(adapter, selector, encoded_call_args) ==
    IF selector.type \notin {"bytes", "HexBytes"}
    THEN Raised("AssertionError", <<>>)
    ELSE IF encoded_call_args.type \notin {"bytes", "HexBytes"}
    THEN Raised("AssertionError", <<encoded_call_args>>)
    ELSE IF ~(Len(encoded_call_args.value) > 0)
    THEN Raised("AssertionError", <<>>)
    ELSE call_on_integration_encode(adapter, selector, encoded_call_args)

\* encode_call_on_integration_args, lines 96-115.
encode_call_on_integration_args(adapter, selector, encoded_call_args) ==
    IF selector.type \notin {"bytes", "HexBytes"}                      \* line 103
    THEN Raised("AssertionError", <<>>)
    ELSE IF encoded_call_args.type \notin {"bytes", "HexBytes"}        \* line 104
    THEN Raised("AssertionError", <<encoded_call_args>>)
    ELSE IF ~(Len(selector.value) = SelectorBytes)                     \* line 105
    THEN Raised("AssertionError", <<selector>>)
    ELSE IF ~(Len(encoded_call_args.value) > 0)                        \* line 106
    THEN Raised("AssertionError", <<>>)
    ELSE call_on_integration_encode(adapter, selector, encoded_call_args)

\* EXECUTE_CALLS_SELECTOR, line 22: the first four bytes of
\* keccak("executeCalls(address,bytes,bytes)"), 0xb7fe1a11, a HexBytes.
EXECUTE_CALLS_SELECTOR == BytesValue("HexBytes", <<183, 254, 26, 17>>)

\* IntegrationManagerActionId.CallOnIntegration.value
CallOnIntegration == 0

\* comptroller.functions.callOnExtension(...).build_transaction(): the
\* transaction dict, built and not sent.
BuildCallOnExtension(comptroller, extension, action_id, call_args) ==
    [to |-> comptroller.address, fn |-> "callOnExtension",
     args |-> <<extension, action_id, call_args>>]

\* What execute_calls_for_generic_adapter gives back: its outcome, the
\* transaction it returns (None if it raised) and the encoders it ran.
BuildResult(outcome, tx, encoders) == [outcome |-> outcome, tx |-> tx, encoders |-> encoders]

\* Lines 156-175: the two encodings and the transaction.
build_after_sanity_checks(comptroller, external_calls, generic_adapter, integration_manager, incoming_assets, min_incoming_asset_amounts, spend_assets, spend_asset_amounts) ==
    LET execute_call_args ==                                              \* lines 156-162
            encode_generic_adapter_execute_calls_args(
                ExecuteCallsArgs(incoming_assets, min_incoming_asset_amounts,
                                 spend_assets, spend_asset_amounts, external_calls))
    IN  IF execute_call_args.outcome # "returned"
        THEN BuildResult(execute_call_args.outcome, None,
                         <<"encode_generic_adapter_execute_calls_args">>)
        ELSE
          LET call_args ==                                                \* lines 164-168
                  encode_call_on_integration_args(
                      generic_adapter, EXECUTE_CALLS_SELECTOR,
                      BytesValue("bytes", execute_call_args.value))
              both == <<"encode_generic_adapter_execute_calls_args",
                        "encode_call_on_integration_args">>
          IN  IF call_args.outcome # "returned"
              THEN BuildResult(call_args.outcome, None, both)
              ELSE BuildResult("returned",                                \* lines 171-175
                       Some(BuildCallOnExtension(comptroller, integration_manager.address,
                                                 CallOnIntegration, call_args.value)),
                       both)

\* The function without its check of line 148.
execute_calls_for_generic_adapter_any_calls(comptroller, external_calls, generic_adapter, integration_manager, incoming_assets, min_incoming_asset_amounts, spend_assets, spend_asset_amounts) ==
    IF \/ ~IsContract(comptroller)
       \/ ~IsContract(generic_adapter)
       \/ ~(Len(incoming_assets) > 0)
       \/ ~IsContract(integration_manager)
       \/ ~(Len(min_incoming_asset_amounts) > 0)
       \/ ~(Len(spend_asset_amounts) > 0)
       \/ ~(Len(spend_assets) > 0)
    THEN BuildResult("AssertionError", None, <<>>)
    ELSE build_after_sanity_checks(comptroller, external_calls, generic_adapter,
                                   integration_manager, incoming_assets,
                                   min_incoming_asset_amounts, spend_assets,
                                   spend_asset_amounts)

\* execute_calls_for_generic_adapter, lines 118-175.
execute_calls_for_generic_adapter(comptroller, external_calls, generic_adapter, integration_manager, incoming_assets, min_incoming_asset_amounts, spend_assets, spend_asset_amounts) ==
    IF \/ ~IsContract(comptroller)                                        \* line 147
       \/ ~(Len(external_calls) > 0)                                      \* line 148
       \/ ~IsContract(generic_adapter)                                    \* line 149
       \/ ~(Len(incoming_assets) > 0)                                     \* line 150
       \/ ~IsContract(integration_manager)                                \* line 151
       \/ ~(Len(min_incoming_asset_amounts) > 0)                          \* line 152
       \/ ~(Len(spend_asset_amounts) > 0)                                 \* line 153
       \/ ~(Len(spend_assets) > 0)                                        \* line 154
    THEN BuildResult("AssertionError", None, <<>>)
    ELSE build_after_sanity_checks(comptroller, external_calls, generic_adapter,
                                   integration_manager, incoming_assets,
                                   min_incoming_asset_amounts, spend_assets,
                                   spend_asset_amounts)

\* ---- the inputs the encoders are applied to ----

Seeds == 0..(NumSeeds - 1)

AmountValues == <<1, 0, 500000000, 256>>

CallDatas == << <<171, 205>>, <<>>, [j \in 1..33 |-> j], [j \in 1..32 |-> 255] >>

\* One list position made bad: an asset that is a raw address string or an
\* int, an amount that is negative, a call data that is a str.
NoBad == [list |-> 0, pos |-> 0, kind |-> "none"]

BadKinds(k) ==
    CASE k \in {1, 3} -> {"str", "int"}
      [] k \in {2, 4} -> {"negative"}
      [] OTHER -> {"str", "int", "strdata"}

BadChoices(n) ==
    {NoBad} \cup
    UNION {{[list |-> k, pos |-> i, kind |-> x] : i \in 1..n[k], x \in BadKinds(k)} :
             k \in 1..5}

AssetAt(k, i, seed, bad) ==
    LET a == ((seed + k + i) % NumAddresses) + 1
    IN  IF bad.list = k /\ bad.pos = i /\ bad.kind = "str" THEN RawAddress(a)
        ELSE IF bad.list = k /\ bad.pos = i /\ bad.kind = "int" THEN NotAnAsset(a)
        ELSE ContractProxy(a)

AmountAt(k, i, seed, bad) ==
    IF bad.list = k /\ bad.pos = i THEN -1
    ELSE AmountValues[((seed + k + i) % Len(AmountValues)) + 1]

DataAt(i, seed, bad) ==
    BytesValue(IF bad.list = 5 /\ bad.pos = i /\ bad.kind = "strdata" THEN "str" ELSE "bytes",
               CallDatas[((seed + i) % Len(CallDatas)) + 1])

\* The argument lists with lengths n[1..5], contents picked by seed.
MakeArgs(n, seed, bad) ==
    ExecuteCallsArgs(
        [i \in 1..n[1] |-> AssetAt(1, i, seed, bad)],
        [i \in 1..n[2] |-> AmountAt(2, i, seed, bad)],
        [i \in 1..n[3] |-> AssetAt(3, i, seed, bad)],
        [i \in 1..n[4] |-> AmountAt(4, i, seed, bad)],
        [i \in 1..n[5] |-> <<AssetAt(5, i, seed, bad), DataAt(i, seed, bad)>>])

ArgLengths ==
    {n \in [1..5 -> 0..(IF MaxAssets > MaxExternalCalls THEN MaxAssets ELSE MaxExternalCalls)] :
        /\ \A k \in 1..4 : n[k] <= MaxAssets
        /\ n[5] <= MaxExternalCalls}

\* An encoded_call_args value as execute_calls_for_generic_adapter passes it.
SampleCallArgs ==
    encode_generic_adapter_execute_calls_args(MakeArgs([k \in 1..5 |-> 1], 0, NoBad)).value

Adapters == {ContractProxy(1), RawAddress(2), NotAnAsset(3)}

Selectors ==
    {BytesValue(ty, [j \in 1..n |-> 16 * j]) :
        ty \in {"bytes", "HexBytes", "str"}, n \in 0..MaxSelectorLen}

EncodedCallArgs ==
    {BytesValue(ty, v) : ty \in {"bytes", "HexBytes", "str"}, v \in {<<>>, <<1>>, SampleCallArgs}}

\* ---- state and actions ----

EncCall(op, args) == [op |-> op, args |-> args]

NotCalled == [outcome |-> "pending", value |-> <<>>, names |-> <<>>]

\* call is a call of encode_generic_adapter_execute_calls_args.
ExecuteCallsInputs(call) ==
    \E n \in ArgLengths, seed \in Seeds :
        \E bad \in BadChoices(n) :
            call = EncCall("encode_generic_adapter_execute_calls_args", MakeArgs(n, seed, bad))

\* call is a call of encode_call_on_integration_args.
CallOnIntegrationInputs(call) ==
    \E adapter \in Adapters, selector \in Selectors, encoded_call_args \in EncodedCallArgs :
        call = EncCall("encode_call_on_integration_args",
                       [adapter |-> adapter, selector |-> selector,
                        encoded_call_args |-> encoded_call_args])

\* The comptroller, generic adapter and integration manager of a call: all
\* contract proxies, or one of them a plain address string.
ProtocolContracts ==
    {[comptroller |-> ContractProxy(1), generic_adapter |-> ContractProxy(2),
      integration_manager |-> ContractProxy(3)],
     [comptroller |-> RawAddress(1), generic_adapter |-> ContractProxy(2),
      integration_manager |-> ContractProxy(3)],
     [comptroller |-> ContractProxy(1), generic_adapter |-> RawAddress(2),
      integration_manager |-> ContractProxy(3)],
     [comptroller |-> ContractProxy(1), generic_adapter |-> ContractProxy(2),
      integration_manager |-> RawAddress(3)]}

\* call is a call of execute_calls_for_generic_adapter.
ExecuteCallsForGenericAdapterInputs(call) ==
    \E n \in ArgLengths, seed \in Seeds, contracts \in ProtocolContracts :
        \E bad \in BadChoices(n) :
            call = EncCall("execute_calls_for_generic_adapter",
                           [contracts |-> contracts, lists |-> MakeArgs(n, seed, bad)])

\* A caller is about to call one of the encoders with some arguments.
EncoderStart ==
    /\ \/ ExecuteCallsInputs(enc_in)
       \/ CallOnIntegrationInputs(enc_in)
       \/ ExecuteCallsForGenericAdapterInputs(enc_in)
    /\ enc_out = NotCalled

EncoderIdle ==
    /\ enc_in = EncCall("none", <<>>)
    /\ enc_out = NotCalled

\* encode_generic_adapter_execute_calls_args(...) runs.
EncodeGenericAdapterExecuteCallsArgs ==
    /\ enc_in.op = "encode_generic_adapter_execute_calls_args"
    /\ enc_out = NotCalled
    /\ enc_out' = encode_generic_adapter_execute_calls_args(enc_in.args)
    /\ UNCHANGED enc_in

\* encode_call_on_integration_args(adapter, selector, encoded_call_args) runs.
EncodeCallOnIntegrationArgs ==
    /\ enc_in.op = "encode_call_on_integration_args"
    /\ enc_out = NotCalled
    /\ enc_out' = encode_call_on_integration_args(enc_in.args.adapter, enc_in.args.selector,
                                                  enc_in.args.encoded_call_args)
    /\ UNCHANGED enc_in

\* execute_calls_for_generic_adapter(...) runs.
ExecuteCallsForGenericAdapter ==
    /\ enc_in.op = "execute_calls_for_generic_adapter"
    /\ enc_out = NotCalled
    /\ enc_out' =
         execute_calls_for_generic_adapter(
             enc_in.args.contracts.comptroller,
             enc_in.args.lists.external_calls,
             enc_in.args.contracts.generic_adapter,
             enc_in.args.contracts.integration_manager,
             enc_in.args.lists.incoming_assets,
             enc_in.args.lists.min_incoming_asset_amounts,
             enc_in.args.lists.spend_assets,
             enc_in.args.lists.spend_asset_amounts)
    /\ UNCHANGED enc_in

(***************************************************************************)
(*                  CONTRACT DEPLOYER AND CONTRACT REGISTRY                *)
(* A registry is a Python dict: it has an identity (its index in `dicts`)  *)
(* and a content (a function from addresses to contract instances).        *)
(***************************************************************************)

\* The Web3 connections in use.
Web3Handles == {"web3_a", "web3_b"}

\* The addresses register_contract is called with directly.
KnownAddresses == {1, 2}

\* The `contract` argument: an ABI file name or a contract proxy class.
ContractArgs ==
    {[kind |-> "str", value |-> "ERC20Mock.json"],
     [kind |-> "class", value |-> "GenericAdapter"]}

\* contract.replace(".json", "")
WithoutJsonSuffix(name) ==
    CASE name = "ERC20Mock.json" -> "ERC20Mock"
      [] OTHER -> name

\* A contract proxy instance; name is "<unset>" until something assigns it.
Instance(address, class, name) == [address |-> address, class |-> class, name |-> name]

\* d[address] = instance
DictSet(d, address, instance) ==
    [a \in (DOMAIN d) \cup {address} |-> IF a = address THEN instance ELSE d[a]]

EmptyDict == [a \in {} |-> 0]

\* A get_or_create that always installs a fresh dict.
get_or_create_contract_registry_fresh(reg_of, ds, web3) ==
    [registry_of |-> [reg_of EXCEPT ![web3] = Some(Len(ds) + 1)],
     dicts |-> Append(ds, EmptyDict),
     registry |-> Len(ds) + 1]

\* get_or_create_contract_registry, lines 85-103: the registries after the
\* call and the dict it returns.
get_or_create_contract_registry(reg_of, ds, web3) ==
    IF IsNone(reg_of[web3])                          \* not hasattr(web3, "contract_registry")
    THEN [registry_of |-> [reg_of EXCEPT ![web3] = Some(Len(ds) + 1)],
          dicts |-> Append(ds, EmptyDict),
          registry |-> Len(ds) + 1]
    ELSE [registry_of |-> reg_of, dicts |-> ds, registry |-> Get(reg_of[web3])]

\* register_contract, lines 106-110.
register_contract(reg_of, ds, web3, address, instance) ==
    LET got == get_or_create_contract_registry(reg_of, ds, web3)
    IN  [registry_of |-> got.registry_of,
         dicts |-> [got.dicts EXCEPT ![got.registry] = DictSet(@, address, instance)],
         registry |-> got.registry]

\* What a deploy_contract call gives back: its outcome, the instance it
\* returns (None if it raised) and the registries it leaves.
DeployResult(outcome, instance, reg_of, ds) ==
    [outcome |-> outcome, instance |-> instance, registry_of |-> reg_of, dicts |-> ds]

\* A deploy_contract that registers whatever register_for_tracing says.
deploy_contract_always_registers(reg_of, ds, web3, contract, register_for_tracing, chain) ==
    LET class == IF contract.kind = "str" THEN WithoutJsonSuffix(contract.value)
                 ELSE contract.value
        contract_name == IF contract.kind = "str" THEN WithoutJsonSuffix(contract.value)
                         ELSE "<None>"
    IN  IF chain.transact # "ok" THEN DeployResult(chain.transact, None, reg_of, ds)
        ELSE IF chain.receipt # "ok" THEN DeployResult(chain.receipt, None, reg_of, ds)
        ELSE LET named == Instance(chain.address, class, contract_name)
                 after == register_contract(reg_of, ds, web3, chain.address, named)
             IN  DeployResult("returned", Some(named), after.registry_of, after.dicts)

\* deploy_contract, lines 60-82. chain says how the node answers: whether
\* transact and wait_for_transaction_receipt return or raise, and the address
\* in the receipt.
deploy_contract(reg_of, ds, web3, contract, register_for_tracing, chain) ==
    LET class == IF contract.kind = "str"                               \* lines 60-68
                 THEN WithoutJsonSuffix(contract.value)                 \* get_contract(web3, contract)
                 ELSE contract.value
        contract_name == IF contract.kind = "str"
                         THEN WithoutJsonSuffix(contract.value)
                         ELSE "<None>"
    IN  IF chain.transact # "ok"                                        \* line 70
        THEN DeployResult(chain.transact, None, reg_of, ds)
        ELSE IF chain.receipt # "ok"                                    \* line 72
        THEN DeployResult(chain.receipt, None, reg_of, ds)
        ELSE
          LET instance == Instance(chain.address, class, "<unset>")     \* lines 74-76
          IN  IF register_for_tracing                                   \* lines 78-80
              THEN LET named == [instance EXCEPT !.name = contract_name]
                       after == register_contract(reg_of, ds, web3, chain.address, named)
                   IN  DeployResult("returned", Some(named), after.registry_of, after.dicts)
              ELSE DeployResult("returned", Some(instance), reg_of, ds)  \* line 82

\* How the node can answer a deployment.
ChainAnswers(address) ==
    {[transact |-> "ok", receipt |-> "ok", address |-> address],
     [transact |-> "ContractLogicError", receipt |-> "ok", address |-> address],
     [transact |-> "ok", receipt |-> "TimeExhausted", address |-> address]}

DeployCall(op, web3, register_for_tracing, chain, outcome, ret) ==
    [op |-> op, web3 |-> web3, register_for_tracing |-> register_for_tracing,
     chain |-> chain, outcome |-> outcome, ret |-> ret]

NoDeployCall == DeployCall("none", "none", FALSE, None, "none", None)

DeployStart ==
    /\ registry_of = [w \in Web3Handles |-> None]
    /\ dicts = <<>>
    /\ deployed = 0
    /\ first_access = [w \in Web3Handles |-> None]
    /\ expected = [w \in Web3Handles |-> EmptyDict]
    /\ dep_last = NoDeployCall

DeployIdle == DeployStart

\* What the first get_or_create on a connection returned: the dict and its size.
FirstAccess(web3, got) ==
    IF IsNone(first_access[web3])
    THEN [first_access EXCEPT ![web3] =
            Some([registry |-> got.registry,
                  size |-> Cardinality(DOMAIN got.dicts[got.registry])])]
    ELSE first_access

\* get_or_create_contract_registry(web3)
GetOrCreateContractRegistry(web3) ==
    LET got == get_or_create_contract_registry(registry_of, dicts, web3)
    IN  /\ registry_of' = got.registry_of
        /\ dicts' = got.dicts
        /\ first_access' = FirstAccess(web3, got)
        /\ dep_last' = DeployCall("get_or_create_contract_registry", web3, FALSE, None,
                                  "returned", Some(got.registry))
        /\ UNCHANGED <<deployed, expected>>

\* register_contract(web3, address, instance)
RegisterContract(web3, address, instance) ==
    LET got == get_or_create_contract_registry(registry_of, dicts, web3)
        after == register_contract(registry_of, dicts, web3, address, instance)
    IN  /\ registry_of' = after.registry_of
        /\ dicts' = after.dicts
        /\ first_access' = FirstAccess(web3, got)
        /\ expected' = [expected EXCEPT ![web3] = DictSet(@, address, instance)]
        /\ dep_last' = DeployCall("register_contract", web3, FALSE, None, "returned", None)
        /\ UNCHANGED deployed

\* deploy_contract(web3, contract, deployer, register_for_tracing=...)
DeployContract(web3, contract, register_for_tracing) ==
    /\ deployed < MaxDeployments
    /\ \E chain \in ChainAnswers(Cardinality(KnownAddresses) + deployed) :
         LET res == deploy_contract(registry_of, dicts, web3, contract,
                                    register_for_tracing, chain)
             got == get_or_create_contract_registry(registry_of, dicts, web3)
             registered == res.registry_of # registry_of \/ res.dicts # dicts
         IN  /\ registry_of' = res.registry_of
             /\ dicts' = res.dicts
             /\ deployed' = IF chain.transact = "ok" THEN deployed + 1 ELSE deployed
             /\ first_access' = IF registered THEN FirstAccess(web3, got) ELSE first_access
             /\ expected' =
                  IF register_for_tracing /\ res.outcome = "returned"
                  THEN [expected EXCEPT ![web3] = DictSet(@, chain.address, Get(res.instance))]
                  ELSE expected
             /\ dep_last' = DeployCall("deploy_contract", web3, register_for_tracing,
                                       Some(chain), res.outcome, res.instance)

(***************************************************************************)
(*                           SPECIFICATIONS                                *)
(***************************************************************************)

InitWallet == WalletStart /\ FactoryIdle /\ EncoderIdle /\ DeployIdle

NextWallet ==
    \/ SyncNonce /\ UNCHANGED other_than_wallet
    \/ AllocateNonce /\ UNCHANGED other_than_wallet
    \/ \E req \in Requests : SignTransactionWithNewNonce(req) /\ UNCHANGED other_than_wallet
    \/ TransactionMined /\ UNCHANGED other_than_wallet

SpecWallet == InitWallet /\ [][NextWallet]_vars

InitWalletThreads == SharedWalletStart /\ FactoryIdle /\ EncoderIdle /\ DeployIdle

NextWalletThreads ==
    \/ \E t \in WalletThreads : AllocCall(t) /\ UNCHANGED other_than_wallet_threads
    \/ \E t \in WalletThreads : AllocRead(t) /\ UNCHANGED other_than_wallet_threads
    \/ \E t \in WalletThreads : AllocLoad(t) /\ UNCHANGED other_than_wallet_threads
    \/ \E t \in WalletThreads : AllocStoreAndReturn(t) /\ UNCHANGED other_than_wallet_threads

SpecWalletThreads == InitWalletThreads /\ [][NextWalletThreads]_vars

InitFactory == FactoryStart /\ WalletIdle /\ EncoderIdle /\ DeployIdle

NextFactory ==
    \/ \E t \in Threads, f \in Factories : FactoryCall(t, f) /\ UNCHANGED other_than_factory
    \/ \E t \in Threads : FactoryCreate(t) /\ UNCHANGED other_than_factory
    \/ \E t \in Threads : FactoryStoreAndReturn(t) /\ UNCHANGED other_than_factory

SpecFactory == InitFactory /\ [][NextFactory]_vars

InitEncoder == EncoderStart /\ WalletIdle /\ FactoryIdle /\ DeployIdle

NextEncoder ==
    \/ EncodeGenericAdapterExecuteCallsArgs /\ UNCHANGED other_than_encoder
    \/ EncodeCallOnIntegrationArgs /\ UNCHANGED other_than_encoder
    \/ ExecuteCallsForGenericAdapter /\ UNCHANGED other_than_encoder

SpecEncoder == InitEncoder /\ [][NextEncoder]_vars

InitDeploy == DeployStart /\ WalletIdle /\ FactoryIdle /\ EncoderIdle

NextDeploy ==
    \/ \E w \in Web3Handles : GetOrCreateContractRegistry(w) /\ UNCHANGED other_than_deploy
    \/ \E w \in Web3Handles, a \in KnownAddresses, n \in {"Token", "Router"} :
          RegisterContract(w, a, Instance(a, n, n)) /\ UNCHANGED other_than_deploy
    \/ \E w \in Web3Handles, c \in ContractArgs, r \in BOOLEAN :
          DeployContract(w, c, r) /\ UNCHANGED other_than_deploy

SpecDeploy == InitDeploy /\ [][NextDeploy]_vars

(***************************************************************************)
(* Claims about the wallet, checked under SpecWallet.                      *)
(***************************************************************************)

\* C1: after one sync_nonce to the on-chain count k, the i-th allocate_nonce
\* call returned k + i - 1 (so the N calls returned k .. k+N-1, in order, each
\* once) and the counter equals k + N.
C1_SequentialNonces ==
    Len(syncs) = 1 =>
        /\ \A i \in 1..Len(allocated) : allocated[i].nonce = syncs[1] + i - 1
        /\ current_nonce = Some(syncs[1] + Len(allocated))

C1_Witness ==
    /\ Len(syncs) = 1
    /\ syncs[1] = 1
    /\ Len(allocated) >= 2
    /\ last.op = "allocate_nonce"

C3_RejectsPresetNonce ==
    (last.op = "sign" /\ "nonce" \in DOMAIN Get(last.pre_tx)) =>
        /\ last.outcome = "AssertionError"
        /\ IsNone(last.ret)
        /\ current_nonce = last.pre_counter
        /\ signed = last.pre_signed
        /\ txs[last.req] = Get(last.pre_tx)

C3_Witness ==
    /\ last.op = "sign"
    /\ "nonce" \in DOMAIN Get(last.pre_tx)
    /\ ~IsNone(current_nonce)
    /\ Len(allocated) >= 1

\* C4 as stated: a sign_transaction_with_new_nonce call of a synced wallet on
\* a dict without a nonce advances the counter by one and returns a record
\* whose nonce is the allocated value and whose source is the request; the
\* on-chain count is untouched by the call.
C4_SignsWithFreshNonce ==
    (/\ last.op = "sign"
     /\ "nonce" \notin DOMAIN Get(last.pre_tx)
     /\ ~IsNone(last.pre_counter)) =>
        /\ last.outcome = "returned"
        /\ current_nonce = Some(Get(last.pre_counter) + 1)
        /\ ~IsNone(last.ret)
        /\ Get(last.ret).nonce = Get(last.pre_counter)
        /\ Get(last.ret).source = txs[last.req]
        /\ Get(last.ret) \in signed

(***************************************************************************)
(* Claims about the connection factory, checked under SpecFactory.         *)
(***************************************************************************)

\* The returned calls of the factories that cache per thread.
CachingCalls ==
    {i \in 1..Len(fcalls) : FactoryConfig[fcalls[i].factory].thread_local_cache}

\* C5: of the calls to thread_local_cache-enabled factories, those made on
\* one thread all return the handle the thread's first such call created,
\* and calls made on different threads never return the same handle.
C5_OneHandlePerThread ==
    \A i, j \in CachingCalls :
        /\ (i < j /\ fcalls[i].thread = fcalls[j].thread) =>
              /\ fcalls[i].handle = fcalls[j].handle
              /\ ~fcalls[j].created
        /\ (i < j /\ fcalls[i].thread = fcalls[j].thread
              /\ \A k \in CachingCalls : fcalls[k].thread = fcalls[i].thread => i <= k)
              => fcalls[i].created
        /\ fcalls[i].thread # fcalls[j].thread => fcalls[i].handle # fcalls[j].handle

C5_Witness ==
    \E i, j, k \in CachingCalls :
        /\ i < j
        /\ fcalls[i].thread = fcalls[j].thread
        /\ fcalls[i].handle = fcalls[j].handle
        /\ fcalls[k].thread # fcalls[i].thread
        /\ fcalls[k].handle # fcalls[i].handle
        /\ fcalls[i].factory = fcalls[j].factory
        /\ fcalls[i].factory = fcalls[k].factory

(***************************************************************************)
(* Claims about the encoders, checked under SpecEncoder.                   *)
(***************************************************************************)

ExecuteCallsRan ==
    /\ enc_in.op = "encode_generic_adapter_execute_calls_args"
    /\ enc_out # NotCalled

CallOnIntegrationRan ==
    /\ enc_in.op = "encode_call_on_integration_args"
    /\ enc_out # NotCalled

\* The addresses of a list of resolved asset references.
AddressesOf(assets) == [i \in 1..Len(assets) |-> assets[i].address]

\* C6: whenever encode_generic_adapter_execute_calls_args returns, decoding
\* its output as (address[],uint256[],address[],uint256[],bytes) and the
\* fifth element as (address[],bytes[]) gives back the incoming asset
\* addresses, the minimum incoming amounts, the spend asset addresses, the
\* spend amounts, and the targets and data of the external calls, in order.
C6_RoundTrip ==
    (ExecuteCallsRan /\ enc_out.outcome = "returned") =>
        LET args == enc_in.args
            outer == DecodeExecuteCallsArgs(enc_out.value)
            inner == DecodeExternalCalls(outer.external_calls)
        IN  /\ outer.incoming_assets = AddressesOf(args.incoming_assets)
            /\ outer.min_incoming_asset_amounts = args.min_incoming_asset_amounts
            /\ outer.spend_assets = AddressesOf(args.spend_assets)
            /\ outer.spend_asset_amounts = args.spend_asset_amounts
            /\ Len(inner.targets) = Len(args.external_calls)
            /\ Len(inner.datas) = Len(args.external_calls)
            /\ \A i \in 1..Len(args.external_calls) :
                  /\ inner.targets[i] = args.external_calls[i][1].address
                  /\ inner.datas[i] = args.external_calls[i][2].value

C6_Witness ==
    /\ ExecuteCallsRan
    /\ enc_out.outcome = "returned"
    /\ Len(enc_in.args.external_calls) = 2
    /\ enc_in.args.external_calls[1] # enc_in.args.external_calls[2]
    /\ Len(enc_in.args.external_calls[2][2].value) > WordBytes
    /\ Len(enc_in.args.incoming_assets) >= 1
    /\ Len(enc_in.args.spend_assets) >= 1
    /\ AddressesOf(enc_in.args.incoming_assets) # AddressesOf(enc_in.args.spend_assets)

\* C7 as stated: encode_generic_adapter_execute_calls_args raises an error
\* naming the offending value, and returns nothing, whenever incoming_assets
\* and min_incoming_asset_amounts differ in length, spend_assets and
\* spend_asset_amounts differ in length, or an asset reference is neither a
\* raw address nor a contract proxy.
C7_RejectsMismatchAndBadAssets ==
    LET args == enc_in.args
    IN  (/\ ExecuteCallsRan
         /\ \/ Len(args.incoming_assets) # Len(args.min_incoming_asset_amounts)
            \/ Len(args.spend_assets) # Len(args.spend_asset_amounts)
            \/ \E i \in 1..Len(args.incoming_assets) :
                  args.incoming_assets[i].type \notin {"Contract", "str"}
            \/ \E i \in 1..Len(args.spend_assets) :
                  args.spend_assets[i].type \notin {"Contract", "str"})
        => /\ enc_out.outcome # "returned"
           /\ enc_out.names # <<>>

\* C8: encode_call_on_integration_args raises for every selector that is not
\* exactly 4 bytes long and for empty encoded_call_args; when it returns, the
\* selector is 4 bytes long and encoded_call_args is not empty.
C8_SelectorAndArgsChecked ==
    CallOnIntegrationRan =>
        /\ Len(enc_in.args.selector.value) # SelectorBytes => enc_out.outcome # "returned"
        /\ Len(enc_in.args.encoded_call_args.value) = 0 => enc_out.outcome # "returned"
        /\ enc_out.outcome = "returned" =>
              /\ Len(enc_in.args.selector.value) = SelectorBytes
              /\ Len(enc_in.args.encoded_call_args.value) > 0

C8_Witness ==
    /\ CallOnIntegrationRan
    /\ enc_in.args.adapter.type = "Contract"
    /\ enc_in.args.selector.type = "bytes"
    /\ Len(enc_in.args.selector.value) = SelectorBytes - 1
    /\ enc_in.args.encoded_call_args.type = "bytes"
    /\ Len(enc_in.args.encoded_call_args.value) > 0
    /\ enc_out.outcome = "AssertionError"

(***************************************************************************)
(* Claims about the deployer and the registry, checked under SpecDeploy.   *)
(***************************************************************************)

\* The content of a connection's registry (empty while it has none).
RegistryContent(w) ==
    IF IsNone(registry_of[w]) THEN EmptyDict ELSE dicts[Get(registry_of[w])]

\* C9: the first get_or_create_contract_registry on a connection returned an
\* empty mapping and every later one returns that same mapping; every address
\* registered on the connection is present and maps to the instance of the
\* latest register_contract call for it; nothing else is in the registry, and
\* two connections never have the same mapping.
C9_RegistryKeepsEntries ==
    /\ \A w \in Web3Handles :
          /\ ~IsNone(first_access[w]) =>
                /\ Get(first_access[w]).size = 0
                /\ registry_of[w] = Some(Get(first_access[w]).registry)
          /\ (/\ dep_last.op = "get_or_create_contract_registry"
              /\ dep_last.web3 = w) =>
                /\ ~IsNone(first_access[w])
                /\ Get(dep_last.ret) = Get(first_access[w]).registry
          /\ \A a \in DOMAIN expected[w] :
                /\ a \in DOMAIN RegistryContent(w)
                /\ RegistryContent(w)[a] = expected[w][a]
          /\ DOMAIN RegistryContent(w) \subseteq DOMAIN expected[w]
    /\ \A w1, w2 \in Web3Handles :
          (w1 # w2 /\ ~IsNone(registry_of[w1]) /\ ~IsNone(registry_of[w2]))
              => registry_of[w1] # registry_of[w2]

C9_Witness ==
    /\ dep_last.op = "get_or_create_contract_registry"
    /\ \E w1, w2 \in Web3Handles :
          /\ w1 # w2
          /\ dep_last.web3 = w1
          /\ DOMAIN expected[w1] = KnownAddresses
          /\ expected[w1][1].name = "Router"
          /\ expected[w2] # EmptyDict
          /\ DOMAIN expected[w2] # DOMAIN expected[w1]

\* C10: a deploy_contract call changes the registry only if register_for_tracing
\* is true and both the submission and the receipt wait succeeded; it then
\* puts the proxy it returns under the address of the receipt and changes
\* nothing else.  Otherwise the registry is as before, and a failed submission
\* or receipt wait is what the caller gets.
C10_DeployStep ==
    dep_last'.op = "deploy_contract" =>
        LET w == dep_last'.web3
            chain == Get(dep_last'.chain)
        IN  /\ (chain.transact # "ok" => dep_last'.outcome = chain.transact)
            /\ (chain.transact = "ok" /\ chain.receipt # "ok"
                   => dep_last'.outcome = chain.receipt)
            /\ (chain.transact = "ok" /\ chain.receipt = "ok"
                   => dep_last'.outcome = "returned")
            /\ (dep_last'.outcome # "returned" => IsNone(dep_last'.ret))
            /\ IF dep_last'.register_for_tracing /\ dep_last'.outcome = "returned"
               THEN /\ ~IsNone(registry_of'[w])
                    /\ dicts'[Get(registry_of'[w])] =
                          DictSet(RegistryContent(w), chain.address, Get(dep_last'.ret))
                    /\ Get(dep_last'.ret).address = chain.address
                    /\ \A v \in Web3Handles \ {w} :
                          /\ registry_of'[v] = registry_of[v]
                          /\ ~IsNone(registry_of[v]) =>
                                dicts'[Get(registry_of[v])] = dicts[Get(registry_of[v])]
               ELSE /\ registry_of' = registry_of
                    /\ dicts' = dicts

C10_DeployRegistersOnlyOnSuccess == [][C10_DeployStep]_vars

C10_Witness ==
    /\ dep_last.op = "deploy_contract"
    /\ dep_last.register_for_tracing
    /\ dep_last.outcome = "returned"
    /\ Get(dep_last.ret).address \in DOMAIN RegistryContent(dep_last.web3)
    /\ RegistryContent(dep_last.web3)[Get(dep_last.ret).address] = Get(dep_last.ret)
    /\ \E a \in KnownAddresses :
          /\ a # Get(dep_last.ret).address
          /\ a \in DOMAIN RegistryContent(dep_last.web3)

(***************************************************************************)
(* Claims about repeated signing, checked under SpecWallet.                *)
(***************************************************************************)

\* This step is a sign_transaction_with_new_nonce call on request r.
SignCallOn(r) ==
    /\ last' # last
    /\ last'.op = "sign"
    /\ last'.req = r

\* C12: once a request carries a nonce, no step changes the request, and a
\* sign_transaction_with_new_nonce call on it fails, allocates no nonce,
\* leaves the counter as it was and returns no record; so the nonce a signing
\* call attached to a request is the only one the request ever gets.
C12_Step ==
    \A r \in Requests :
        "nonce" \in DOMAIN txs[r] =>
            /\ txs'[r] = txs[r]
            /\ SignCallOn(r) =>
                  /\ last'.outcome = "AssertionError"
                  /\ IsNone(last'.ret)
                  /\ allocated' = allocated
                  /\ current_nonce' = current_nonce
                  /\ signed' = signed

C12_RequestConsumedOnce == [][C12_Step]_vars

\* A second signing call failed on a request whose nonce an earlier signing
\* call allocated and attached (a "swap" request never starts with a nonce).
C12_Witness ==
    /\ last.op = "sign"
    /\ last.outcome = "AssertionError"
    /\ txs[last.req].data = "swap"
    /\ "nonce" \in DOMAIN Get(last.pre_tx)
    /\ \E i \in 1..Len(allocated) : allocated[i].nonce = txs[last.req].nonce
    /\ Len(allocated) >= 2

(***************************************************************************)
(* Claims about threads sharing a wallet, checked under SpecWalletThreads. *)
(***************************************************************************)

\* C11: with the steps of concurrent allocate_nonce calls interleaved, no two
\* calls return the same nonce, and once every call has returned the counter
\* is its start value plus the number of calls.
C11_AtomicAllocation ==
    /\ \A i, j \in 1..Len(allocated) :
          i # j => allocated[i].nonce # allocated[j].nonce
    /\ AllocIdle => current_nonce = Some(syncs[1] + Len(allocated))

(***************************************************************************)
(* Claims about the endpoint of a handle, checked under SpecFactory.       *)
(***************************************************************************)

\* C14: every handle a factory call returned is bound to the JSON-RPC URL of
\* the factory that was called, whatever other factories the thread called
\* before.
C14_HandleBoundToOwnUrl ==
    \A i \in 1..Len(fcalls) :
        web3s[fcalls[i].handle].json_rpc_url = FactoryConfig[fcalls[i].factory].json_rpc_url

(***************************************************************************)
(* Claims about the transaction builder, checked under SpecEncoder.        *)
(***************************************************************************)

BuildRan ==
    /\ enc_in.op = "execute_calls_for_generic_adapter"
    /\ enc_out # NotCalled

\* One of the five lists of the call is empty.
SomeListEmpty(lists) ==
    \/ Len(lists.external_calls) = 0
    \/ Len(lists.incoming_assets) = 0
    \/ Len(lists.min_incoming_asset_amounts) = 0
    \/ Len(lists.spend_assets) = 0
    \/ Len(lists.spend_asset_amounts) = 0

\* Arguments the sanity checks and the encoders accept: contract proxies for
\* the three contracts, every asset and call target, amounts that fit a
\* uint256, call data that is bytes.
Encodable(args) ==
    /\ IsContract(args.contracts.comptroller)
    /\ IsContract(args.contracts.generic_adapter)
    /\ IsContract(args.contracts.integration_manager)
    /\ \A i \in 1..Len(args.lists.incoming_assets) : IsContract(args.lists.incoming_assets[i])
    /\ \A i \in 1..Len(args.lists.spend_assets) : IsContract(args.lists.spend_assets[i])
    /\ \A i \in 1..Len(args.lists.external_calls) :
          /\ IsContract(args.lists.external_calls[i][1])
          /\ args.lists.external_calls[i][2].type = "bytes"
    /\ \A i \in 1..Len(args.lists.min_incoming_asset_amounts) :
          args.lists.min_incoming_asset_amounts[i] >= 0
    /\ \A i \in 1..Len(args.lists.spend_asset_amounts) :
          args.lists.spend_asset_amounts[i] >= 0

\* The transaction is callOnExtension on the comptroller, for the integration
\* manager, with the CallOnIntegration action and call arguments that decode,
\* as (address, bytes4, bytes), to the adapter, the executeCalls selector and
\* an encoding of at least one external call.
IsExecuteCallsTransaction(tx, args) ==
    LET call_args == tx.args[3]
        inner == DecodeBytesAt(call_args, DecodeUintAt(call_args, 2 * WordBytes))
        calls == DecodeExternalCalls(DecodeExecuteCallsArgs(inner).external_calls)
    IN  /\ tx.fn = "callOnExtension"
        /\ tx.to = args.contracts.comptroller.address
        /\ tx.args[1] = args.contracts.integration_manager.address
        /\ tx.args[2] = CallOnIntegration
        /\ DecodeAddressAt(call_args, 0) = args.contracts.generic_adapter.address
        /\ SubSeq(call_args, WordBytes + 1, WordBytes + 4) = <<183, 254, 26, 17>>
        /\ Len(calls.targets) = Len(args.lists.external_calls)
        /\ Len(calls.targets) > 0

\* C13: execute_calls_for_generic_adapter with an empty external_calls (or an
\* empty asset or amount list) fails before it runs any encoder and returns
\* no transaction; a transaction it returns is the callOnExtension
\* transaction described above, for a call with at least one external call;
\* and with all five lists non-empty and arguments the encoders accept it
\* does return one.
C13_NeverBuildsWithoutCalls ==
    BuildRan =>
        /\ SomeListEmpty(enc_in.args.lists) =>
              /\ enc_out.outcome = "AssertionError"
              /\ enc_out.encoders = <<>>
              /\ IsNone(enc_out.tx)
        /\ enc_out.outcome = "returned" =>
              /\ ~SomeListEmpty(enc_in.args.lists)
              /\ ~IsNone(enc_out.tx)
              /\ IsExecuteCallsTransaction(Get(enc_out.tx), enc_in.args)
        /\ (~SomeListEmpty(enc_in.args.lists) /\ Encodable(enc_in.args)) =>
              enc_out.outcome = "returned"

\* A call with two assets, two amounts and no external call was refused.
C13_Witness ==
    /\ BuildRan
    /\ Len(enc_in.args.lists.external_calls) = 0
    /\ Len(enc_in.args.lists.incoming_assets) = 2
    /\ Len(enc_in.args.lists.spend_assets) = 2
    /\ Len(enc_in.args.lists.min_incoming_asset_amounts) = 2
    /\ Len(enc_in.args.lists.spend_asset_amounts) = 2
    /\ Encodable(enc_in.args)
    /\ enc_out.outcome = "AssertionError"

=============================================================================
